---- MODULE Spec2Model ----
(***************************************************************************)
(* Model of crosspost's Bluesky strategy (src/strategies/bluesky.js) and   *)
(* of the command-line broadcaster that drives it (bin.js).                *)
(*                                                                         *)
(* A JavaScript string is modelled as the sequence of its UTF-16 code      *)
(* units.  A code unit is one of the ASCII characters below (one UTF-8     *)
(* byte), "E2" (a BMP character of two UTF-8 bytes such as e-acute), "E3"  *)
(* (a BMP character of three UTF-8 bytes such as the euro sign), or one of *)
(* the surrogates "HS" / "LS"; the pair <<"HS","LS">> is one scalar value  *)
(* of four UTF-8 bytes (an emoji).                                         *)
(***************************************************************************)
EXTENDS Integers, Sequences, FiniteSets, TLC

\* ------------------------------------------------------------------------
\* Bounds of the model
\* ------------------------------------------------------------------------
MaxTokens == 2
MaxAdapters == 3
MaxImages == 1

\* ------------------------------------------------------------------------
\* Strings
\* ------------------------------------------------------------------------
Whitespace == {" ", "\n"}

IsWhitespace(c) == c \in Whitespace

Letters == {"a", "b", "h", "p", "s", "t", "x"}

\* s.length
Length(s) == Len(s)

Min(S) == CHOOSE x \in S : \A y \in S : x <= y

\* the indices at which a surrogate pair starts
PairStarts(s) ==
    {i \in 1..Len(s) - 1 : s[i] = "HS" /\ s[i + 1] = "LS"}

\* number of elements of [...s]: the string iterator joins a surrogate
\* pair into one element and yields a lone surrogate as one element
ScalarCount(s) == Len(s) - Cardinality(PairStarts(s))

\* number of bytes of the UTF-8 encoding of s (TextEncoder): four bytes for
\* a surrogate pair, three for a lone surrogate, which is encoded as U+FFFD
Utf8Len(s) ==
    LET paired == PairStarts(s) \cup {i + 1 : i \in PairStarts(s)}
        ofWidth(cs) == Cardinality({i \in (1..Len(s)) \ paired : s[i] \in cs})
    IN  4 * Cardinality(PairStarts(s))
        + 3 * ofWidth({"E3", "HS", "LS"})
        + 2 * ofWidth({"E2"})
        + Cardinality({i \in (1..Len(s)) \ paired : s[i] \notin {"E2", "E3", "HS", "LS"}})

\* "x".repeat(n)
Repeat(c, n) == [i \in 1..n |-> c]

StartsWith(s, i, p) ==
    /\ i + Len(p) - 1 <= Len(s)
    /\ SubSeq(s, i, i + Len(p) - 1) = p

\* index of the last code unit of the run of characters of set cs that
\* starts at i (i - 1 when s[i] is not in cs)
RunEnd(s, i, cs) ==
    Min({j \in i..Len(s) : s[j] \notin cs} \cup {Len(s) + 1}) - 1

\* index of the last code unit of the run of non-whitespace that starts at i
TokenEnd(s, i) ==
    Min({j \in i..Len(s) : IsWhitespace(s[j])} \cup {Len(s) + 1}) - 1

\* /https?:\/\/[^\s]+/ tried at index i: the index of the last code unit of
\* the match, 0 when the pattern does not match at i
UrlMatchEnd(s, i) ==
    LET p == IF StartsWith(s, i, <<"h","t","t","p","s",":","/","/">>) THEN 8
             ELSE IF StartsWith(s, i, <<"h","t","t","p",":","/","/">>) THEN 7
             ELSE 0
    IN  IF p > 0 /\ i + p <= Len(s) /\ ~IsWhitespace(s[i + p])
        THEN TokenEnd(s, i + p)
        ELSE 0

\* the index of the next match of the URL pattern at or after i, Len(s) + 1
\* when there is none
NextUrl(s, i) ==
    Min({j \in i..Len(s) : UrlMatchEnd(s, j) > 0} \cup {Len(s) + 1})

\* ------------------------------------------------------------------------
\* BlueskyStrategy.calculateMessageLength
\* ------------------------------------------------------------------------
URL_LENGTH_LIMIT == 27

\* a callback that also replaces a URL of exactly the limit, by one less
UrlLengthPlaceholderShort(url) ==
    IF Length(url) >= URL_LENGTH_LIMIT THEN Repeat("x", URL_LENGTH_LIMIT - 1) ELSE url

\* the replace callback: url => url.length > 27 ? "x".repeat(27) : url
UrlLengthPlaceholder(url) ==
    IF Length(url) > URL_LENGTH_LIMIT THEN Repeat("x", URL_LENGTH_LIMIT) ELSE url

\* message.replace(/https?:\/\/[^\s]+/g, callback), from index i on
RECURSIVE UrlAdjusted(_, _)
UrlAdjusted(s, i) ==
    LET j == NextUrl(s, i)
    IN  IF j > Len(s) THEN SubSeq(s, i, Len(s))
        ELSE SubSeq(s, i, j - 1)
             \o UrlLengthPlaceholder(SubSeq(s, j, UrlMatchEnd(s, j)))
             \o UrlAdjusted(s, UrlMatchEnd(s, j) + 1)

calculateMessageLength(m) == ScalarCount(UrlAdjusted(m, 1))

\* ------------------------------------------------------------------------
\* detectFacets (util/bluesky-facets.js)
\* ------------------------------------------------------------------------
ELLIPSIS == <<".", ".", ".">>

\* a long URL is shown as its first 24 code units followed by "..."
truncateUrl(url) ==
    IF Length(url) > URL_LENGTH_LIMIT
    THEN SubSeq(url, 1, URL_LENGTH_LIMIT - Len(ELLIPSIS)) \o ELLIPSIS
    ELSE url

NoValue == <<>>

LinkFeature(url) == [type |-> "link", uri |-> url, did |-> NoValue, tag |-> NoValue]

MentionFeature(handle) == [type |-> "mention", uri |-> NoValue, did |-> handle, tag |-> NoValue]

TagFeature(tag) == [type |-> "tag", uri |-> NoValue, did |-> NoValue, tag |-> tag]

Facet(byteStart, byteEnd, feature) ==
    [index |-> [byteStart |-> byteStart, byteEnd |-> byteEnd],
     features |-> <<feature>>]

\* a link facet whose offsets are UTF-16 indices
LinkFacetByCodeUnit(before, url) ==
    Facet(Len(before), Len(before \o truncateUrl(url)), LinkFeature(url))

\* a link facet whose span covers the URL as written
LinkFacetUntruncated(before, url) ==
    Facet(Utf8Len(before), Utf8Len(before \o url), LinkFeature(url))

\* the link facet of a URL that follows the rewritten text before: its span
\* covers the URL as shown, its target is the URL as written
LinkFacet(before, url) ==
    Facet(Utf8Len(before), Utf8Len(before \o truncateUrl(url)), LinkFeature(url))

\* Pass 1: rewrite every URL token to its truncated form and claim its span.
\* The result holds the rewritten text, the link facets (byte offsets into
\* the rewritten text) and the claimed spans as code-unit index pairs.
RECURSIVE ScanUrls(_, _, _, _, _)
ScanUrls(s, i, out, facets, spans) ==
    LET j == NextUrl(s, i)
    IN  IF j > Len(s)
        THEN [text |-> out \o SubSeq(s, i, Len(s)), facets |-> facets, spans |-> spans]
        ELSE LET e == UrlMatchEnd(s, j)
                 url == SubSeq(s, j, e)
                 before == out \o SubSeq(s, i, j - 1)
                 next == before \o truncateUrl(url)
             IN  ScanUrls(s, e + 1, next,
                          Append(facets, LinkFacet(before, url)),
                          Append(spans, <<Len(before) + 1, Len(next)>>))

\* the handle grammar: labels of letters joined by dots; a trailing dot is
\* not part of the handle
HandleEnd(s, i) ==
    LET e == RunEnd(s, i, Letters \cup {"."})
    IN  IF i <= Len(s) /\ s[i] \in Letters
        THEN e - Cardinality({k \in i..e : \A m \in k..e : s[m] = "."})
        ELSE i - 1

\* index of the last code unit of the mention or hashtag that starts at i,
\* i when none starts there
TagEnd(t, i) ==
    IF t[i] = "@" THEN HandleEnd(t, i + 1)
    ELSE IF t[i] = "#" THEN RunEnd(t, i + 1, Letters)
    ELSE i

\* an overlap policy that discards nothing
ClaimedNever(spans, a, b) == FALSE

Claimed(spans, a, b) ==
    \E k \in 1..Len(spans) : ~(b < spans[k][1] \/ a > spans[k][2])

\* Pass 2: mentions and hashtags of the rewritten text t, from index i on;
\* a candidate that overlaps a claimed span is discarded
RECURSIVE ScanTags(_, _, _, _)
ScanTags(t, i, spans, facets) ==
    LET j == Min({k \in i..Len(t) :
                      TagEnd(t, k) > k /\ ~Claimed(spans, k, TagEnd(t, k))}
                 \cup {Len(t) + 1})
    IN  IF j > Len(t) THEN facets
        ELSE LET e == TagEnd(t, j)
                 name == SubSeq(t, j + 1, e)
                 feature == IF t[j] = "@" THEN MentionFeature(name)
                            ELSE TagFeature(name)
             IN  ScanTags(t, e + 1, spans,
                          Append(facets,
                                 Facet(Utf8Len(SubSeq(t, 1, j - 1)),
                                       Utf8Len(SubSeq(t, 1, e)), feature)))

ByByteStart(a, b) == a.index.byteStart < b.index.byteStart

detectFacets(text) ==
    LET urls == ScanUrls(text, 1, <<>>, <<>>, <<>>)
        tags == ScanTags(urls.text, 1, urls.spans, <<>>)
    IN  [text |-> urls.text,
         facets |-> SortSeq(urls.facets \o tags, ByByteStart)]

\* ------------------------------------------------------------------------
\* Inputs
\* ------------------------------------------------------------------------
HTTPS == <<"h", "t", "t", "p", "s", ":", "/", "/">>

Url(n) == HTTPS \o Repeat("a", n - Len(HTTPS))

\* a URL of n code units with an "@" and a handle inside
UrlWithHandle(n) == HTTPS \o <<"@">> \o Repeat("a", n - Len(HTTPS) - 1)

Emoji == <<"HS", "LS">>

Emojis(n) == [i \in 1..2 * n |-> IF i % 2 = 1 THEN "HS" ELSE "LS"]

\* the pieces messages are built from
Tokens ==
    { <<"x">>,
      <<" ">>,
      UrlWithHandle(27),
      Url(28) \o <<" ">>,
      <<"@", "a", " ">>,
      <<"@", "a", " ", "#", "t", " ">>,
      <<"@", "b", ".", "a", "!">>,
      <<"#", "t">>,
      <<"E2">> \o Emoji \o <<"E3">>,
      Url(23) \o Emoji \o <<"a", "a", "@", "a">>,
      HTTPS \o Emojis(10) \o <<" ">> }

RECURSIVE Concat(_)
Concat(ts) == IF ts = <<>> THEN <<>> ELSE Head(ts) \o Concat(Tail(ts))

Messages ==
    { Concat(ts) : ts \in UNION { [1..n -> Tokens] : n \in 0..MaxTokens } }

\* the messages of a broadcast to n adapters: up to two adapters post a
\* message with a mention and a long URL, more adapters a plain one
BroadcastMessages(n) ==
    IF n <= 2 THEN { <<"x">>, <<"@", "a", " ">> \o Url(28) } ELSE { <<"x">> }

\* image-size decodes "png" and "jpg" and throws on "raw"; an alt of
\* "undefined" is an image without alt
ImagePool ==
    { [data |-> "png", alt |-> "test image"], [data |-> "raw", alt |-> ""] }

\* the image lists of a broadcast to n adapters
BroadcastImages(n) ==
    IF n = 1
    THEN { <<>>, <<[data |-> "png", alt |-> "undefined"]>>,
           <<[data |-> "png", alt |-> "first"], [data |-> "jpg", alt |-> "undefined"]>> }
    ELSE IF n = 2 THEN { <<>>, <<[data |-> "png", alt |-> "undefined"]>> }
    ELSE { <<>> }

ImageLists == UNION { [1..n -> ImagePool] : n \in 0..MaxImages }

\* the images options of a post: arrays of images with a Uint8Array payload
ImageOptions == { [imagesType |-> "array", images |-> images] : images \in ImageLists }

\* images options that are not such arrays: a string, an array with an image
\* without data, and an array with an image whose data is a string
InvalidImageOptions ==
    { [imagesType |-> "string", images |-> <<>>],
      [imagesType |-> "array", images |-> <<[data |-> "undefined", alt |-> "test"]>>],
      [imagesType |-> "array",
       images |-> <<[data |-> "not a Uint8Array", alt |-> "test"]>>] }

Outcomes == {"ok", "http_error", "network_error"}

\* ------------------------------------------------------------------------
\* State
\* ------------------------------------------------------------------------
VARIABLES
    flags,        \* the command line flags and arguments, as parseArgs returns them
    stderr,       \* lines written to standard error, in order
    urlCall,      \* the last call of getUrlFromResponse: [strategy, response, url, error]
    strategyOptions, \* the options each strategy is constructed with, in order
    length,       \* the result of calculateMessageLength(message), -1 before
    strategies,   \* the ordered adapter list handed to new Client({ strategies })
    message,      \* the message text
    postOptions,  \* [images, signal]; signal is "none", "idle" or "aborted"
    call,         \* call[i]: the state of strategies[i].post(message, postOptions)
    settleOrder,  \* the adapters in the order in which their post settled
    clientPc,     \* position of the caller of client.post
    responses,    \* the array client.post resolved with
    output,       \* lines written to standard output, in order
    exitCode      \* argument of process.exit

vars == <<flags, stderr, urlCall, strategyOptions, length, strategies, message, postOptions, call, settleOrder,
          clientPc, responses, output, exitCode>>

Adapters == 1..Len(strategies)

aborted == postOptions.signal = "aborted"

NoSession == [accessJwt |-> NoValue, did |-> NoValue]

NewCall ==
    [pc |-> "idle", session |-> NoSession,
     truncatedMessage |-> NoValue, rawFacets |-> <<>>,
     facetIdx |-> 1, featureIdx |-> 1,
     processedFeatures |-> <<>>, processedFacets |-> <<>>,
     imageIdx |-> 1, images |-> <<>>,
     requests |-> <<>>, value |-> NoValue, reason |-> NoValue]

Settled(c) == c.pc \in {"fulfilled", "rejected"}

\* ------------------------------------------------------------------------
\* The platform
\* ------------------------------------------------------------------------
\* the DID the directory returns for a handle
DidOf(handle) == <<"did:plc:">> \o handle

\* the session the server returns for the credentials of a createSession
\* request: the DID of the account and an access token of its own, here
\* numbered by the post that asked for it
SessionOf(credentials, nonce) ==
    [accessJwt |-> <<"jwt", credentials.identifier, nonce>>,
     did |-> <<"did:plc:">> \o credentials.identifier]

\* the blob reference the server returns for an upload
BlobOf(data, accessJwt) == [ref |-> <<data, accessJwt>>]

\* the reply to a successful createRecord
RecordOf(body) ==
    [uri |-> <<"at:", "/", "/">> \o body.repo \o <<"/", "app.bsky.feed.post", "/", "rkey">>]

\* ------------------------------------------------------------------------
\* BlueskyStrategy.post, one step per await
\* ------------------------------------------------------------------------
\* an error: its name followed by the parts of its message
TypeError(text) == <<"TypeError", text>>

\* the rejection of a fetch whose signal has fired
AbortError == <<"AbortError", "This operation was aborted">>

\* an error that only says what failed
HttpErrorGeneric(response, failure) == <<"Error", failure>>

\* the error thrown on a non-success response, lines 283-286, 196-199, 160-163
\* and 371-373: status, status text, what failed, and the error code and
\* message of the response body
HttpError(response, failure) ==
    <<"Error", response.status, response.statusText, failure,
      response.error, response.message>>

\* the non-success response of an endpoint
ErrorResponseOf(url) ==
    CASE url = "createSession" ->
             [status |-> "401", statusText |-> "Unauthorized",
              error |-> "AuthenticationRequired",
              message |-> "Invalid identifier or password"]
      [] url = "resolveHandle" ->
             [status |-> "400", statusText |-> "Bad Request",
              error |-> "InvalidRequest", message |-> "Unable to resolve handle"]
      [] url = "uploadBlob" ->
             [status |-> "413", statusText |-> "Payload Too Large",
              error |-> "BlobTooLarge", message |-> "This file is too large"]
      [] OTHER ->
             [status |-> "403", statusText |-> "Forbidden",
              error |-> "InvalidToken", message |-> "Bad token scope"]

Reject(c, error) == [c EXCEPT !.pc = "rejected", !.reason = error]

Fulfil(c, value) == [c EXCEPT !.pc = "fulfilled", !.value = value]

\* await fetch(url, {..., signal}): fetch rejects at once, without a request,
\* when the signal is already aborted; otherwise the request goes out and the
\* caller is suspended on it
Fetch(c, url, request) ==
    [c EXCEPT !.pc = url,
              !.requests = Append(@, [url |-> url, outcome |-> "pending",
                                      response |-> NoValue] @@ request)]

\* the request in flight receives its response or its rejection
Settle(c, outcome) ==
    [c EXCEPT !.requests[Len(c.requests)].outcome = outcome,
              !.requests[Len(c.requests)].response =
                  IF outcome = "http_error"
                  THEN ErrorResponseOf(c.requests[Len(c.requests)].url)
                  ELSE NoValue]

\* the response to the request the post was suspended on
Response(c) == c.requests[Len(c.requests)].response

\* image-size: the dimensions are read from the data
imageSize(data) ==
    IF data = "png" THEN [width |-> 20, height |-> 19] ELSE [width |-> 40, height |-> 30]

imageSizeThrows(data) == data \notin {"png", "jpg"}

\* image.alt || ""
AltText(alt) == IF alt = "undefined" THEN "" ELSE alt

\* an entry is put at the front of the list
pushImageFront(images, image, blob) ==
    <<[alt |-> AltText(image.alt), image |-> blob,
       aspectRatio |-> imageSize(image.data)]>> \o images

\* postMessage, lines 334-340: the entry of an uploaded image
pushImage(images, image, blob) ==
    Append(images, [alt |-> AltText(image.alt), image |-> blob,
                    aspectRatio |-> imageSize(image.data)])

\* a createRecord request that carries the message as it was given
SubmitRecordUntruncated(c, sigAborted) ==
    LET body == [repo |-> c.session.did,
                 collection |-> "app.bsky.feed.post",
                 record |-> [text |-> message,
                             facets |-> c.processedFacets,
                             embed |-> IF c.images # <<>>
                                       THEN [images |-> c.images]
                                       ELSE NoValue]]
    IN  IF sigAborted THEN Reject(c, AbortError)
        ELSE Fetch(c, "createRecord",
                   [auth |-> c.session.accessJwt, body |-> body, signal |-> TRUE])

\* a createRecord request that does not pass the caller's signal on
SubmitRecordWithoutSignal(c, sigAborted) ==
    LET body == [repo |-> c.session.did,
                 collection |-> "app.bsky.feed.post",
                 record |-> [text |-> c.truncatedMessage,
                             facets |-> c.processedFacets,
                             embed |-> IF c.images # <<>>
                                       THEN [images |-> c.images]
                                       ELSE NoValue]]
    IN  Fetch(c, "createRecord",
              [auth |-> c.session.accessJwt, body |-> body, signal |-> FALSE])

\* a createRecord request that goes out although the signal has fired
SubmitRecordAfterAbort(c, sigAborted) ==
    LET body == [repo |-> c.session.did,
                 collection |-> "app.bsky.feed.post",
                 record |-> [text |-> c.truncatedMessage,
                             facets |-> c.processedFacets,
                             embed |-> IF c.images # <<>>
                                       THEN [images |-> c.images]
                                       ELSE NoValue]]
    IN  Fetch(c, "createRecord",
              [auth |-> c.session.accessJwt, body |-> body, signal |-> TRUE])

\* postMessage, lines 351-359: the createRecord request
SubmitRecord(c, sigAborted) ==
    LET body == [repo |-> c.session.did,
                 collection |-> "app.bsky.feed.post",
                 record |-> [text |-> c.truncatedMessage,
                             facets |-> c.processedFacets,
                             embed |-> IF c.images # <<>>
                                       THEN [images |-> c.images]
                                       ELSE NoValue]]
    IN  IF sigAborted THEN Reject(c, AbortError)
        ELSE Fetch(c, "createRecord",
                   [auth |-> c.session.accessJwt, body |-> body, signal |-> TRUE])

\* a post that submits the record without uploading the images
UploadImagesSkipped(c, images, sigAborted) == SubmitRecord(c, sigAborted)

\* an upload that is not awaited: the record is submitted while it is in
\* flight
UploadImagesNotAwaited(c, images, sigAborted) ==
    IF c.imageIdx <= Len(images)
    THEN IF sigAborted THEN Reject(c, AbortError)
         ELSE SubmitRecord(Fetch(c, "uploadBlob",
                                 [auth |-> c.session.accessJwt,
                                  body |-> images[c.imageIdx].data, signal |-> TRUE]),
                           sigAborted)
    ELSE SubmitRecord(c, sigAborted)

\* postMessage, lines 323-349: the upload loop from image c.imageIdx on
UploadImages(c, images, sigAborted) ==
    IF c.imageIdx <= Len(images)
    THEN IF sigAborted THEN Reject(c, AbortError)
         ELSE Fetch(c, "uploadBlob",
                    [auth |-> c.session.accessJwt,
                     body |-> images[c.imageIdx].data, signal |-> TRUE])
    ELSE SubmitRecord(c, sigAborted)

\* a loop that forgets the features that are not mentions
keepFeatureDropped(processedFeatures, feature) == processedFeatures

\* resolveMentionFacets, line 239: a feature that is not a mention is kept
keepFeature(processedFeatures, feature) == Append(processedFeatures, feature)

\* a resolved mention that keeps the handle it was detected with
resolvedFeatureKeepsHandle(feature, did) == feature

\* resolveMentionFacets, lines 228-231: the mention with the resolved DID
resolvedFeature(feature, did) == [feature EXCEPT !.did = did]

\* a facet with features left is put at the front of the list
pushFacetFront(processedFacets, facet, processedFeatures) ==
    IF Len(processedFeatures) > 0
    THEN <<[facet EXCEPT !.features = processedFeatures]>> \o processedFacets
    ELSE processedFacets

\* resolveMentionFacets, lines 244-249: a facet is kept when it has features
\* left
pushFacet(processedFacets, facet, processedFeatures) ==
    IF Len(processedFeatures) > 0
    THEN Append(processedFacets, [facet EXCEPT !.features = processedFeatures])
    ELSE processedFacets

\* resolveMentionFacets: the two loops from feature c.featureIdx of facet
\* c.facetIdx on, up to the next lookup that suspends.  A lookup that rejects
\* (here: at once, on an aborted signal) is caught and the feature skipped.
RECURSIVE resolveMentionFacets(_, _, _)
resolveMentionFacets(c, images, sigAborted) ==
    IF c.facetIdx > Len(c.rawFacets)
    THEN UploadImages(c, images, sigAborted)
    ELSE LET facet == c.rawFacets[c.facetIdx]
         IN  IF c.featureIdx > Len(facet.features)
             THEN resolveMentionFacets(
                      [c EXCEPT !.processedFacets =
                                    pushFacet(@, facet, c.processedFeatures),
                                !.processedFeatures = <<>>,
                                !.facetIdx = @ + 1,
                                !.featureIdx = 1],
                      images, sigAborted)
             ELSE LET feature == facet.features[c.featureIdx]
                  IN  IF feature.type = "mention" /\ feature.did # NoValue
                      THEN IF sigAborted
                           THEN resolveMentionFacets(
                                    [c EXCEPT !.featureIdx = @ + 1],
                                    images, sigAborted)
                           ELSE Fetch(c, "resolveHandle",
                                      [auth |-> NoValue, body |-> feature.did,
                                       signal |-> TRUE])
                      ELSE resolveMentionFacets(
                               [c EXCEPT !.processedFeatures = keepFeature(@, feature),
                                         !.featureIdx = @ + 1],
                               images, sigAborted)

\* a postMessage that keeps the message it was given as the text
postMessageUntruncated(c, session, text, images, sigAborted) ==
    resolveMentionFacets(
        [c EXCEPT !.session = session,
                  !.rawFacets = detectFacets(text).facets,
                  !.truncatedMessage = text],
        images, sigAborted)

\* postMessage, lines 297-308
postMessage(c, session, text, images, sigAborted) ==
    LET detected == detectFacets(text)
    IN  resolveMentionFacets(
            [c EXCEPT !.session = session,
                      !.rawFacets = detected.facets,
                      !.truncatedMessage = detected.text],
            images, sigAborted)

IsUint8Array(data) == data \in {"png", "jpg", "raw"}

\* validatePostOptions (util/options.js): images, when given, is an array of
\* images that each have data, and the data is a Uint8Array
validatePostOptionsThrows(options) ==
    \/ options.imagesType # "array"
    \/ \E k \in 1..Len(options.images) : ~IsUint8Array(options.images[k].data)

\* the message of the TypeError validatePostOptions throws
validatePostOptionsMessage(options) ==
    IF options.imagesType # "array" THEN "images must be an array."
    ELSE IF \E k \in 1..Len(options.images) : options.images[k].data = "undefined"
    THEN "Image must have data."
    ELSE "Image data must be a Uint8Array."

\* a post that goes on to the network without looking at its arguments
postUnvalidated(strategy, text, options) ==
    IF options.signal = "aborted" THEN Reject(NewCall, AbortError)
    ELSE Fetch(NewCall, "createSession",
               [auth |-> NoValue,
                body |-> [identifier |-> strategy.identifier,
                          password |-> strategy.password],
                signal |-> TRUE])

\* post, lines 455-462: up to the createSession request
post(strategy, text, options) ==
    IF text = <<>> THEN Reject(NewCall, TypeError("Missing message to post."))
    ELSE IF validatePostOptionsThrows(options)
    THEN Reject(NewCall, TypeError(validatePostOptionsMessage(options)))
    ELSE IF options.signal = "aborted" THEN Reject(NewCall, AbortError)
    ELSE Fetch(NewCall, "createSession",
               [auth |-> NoValue,
                body |-> [identifier |-> strategy.identifier,
                          password |-> strategy.password],
                signal |-> TRUE])

\* what a request in flight can end in: once the signal has fired, fetch
\* rejects with the abort error
Settlements(c) ==
    IF aborted /\ c.requests[Len(c.requests)].signal THEN {"abort"} ELSE Outcomes

FetchError(outcome) ==
    IF outcome = "abort" THEN AbortError ELSE TypeError("fetch failed")

\* ------------------------------------------------------------------------
\* Client.post (client.js) and its caller (bin.js)
\* ------------------------------------------------------------------------
\* valid constructor options, of account i
Options(i) ==
    [identifier |-> <<"user", ToString(i)>>, password |-> <<"password">>,
     host |-> <<"test.social">>]

\* constructor options with one or all of the fields missing or empty
InvalidOptions(i) ==
    { [Options(i) EXCEPT !.identifier = NoValue],
      [Options(i) EXCEPT !.password = NoValue],
      [Options(i) EXCEPT !.host = NoValue],
      [identifier |-> NoValue, password |-> NoValue, host |-> NoValue] }

\* an option list of n strategies of which one has invalid options
InvalidOptionLists(n) ==
    { [i \in 1..n |-> IF i = k THEN bad ELSE Options(i)] :
          k \in 1..n, bad \in UNION { InvalidOptions(j) : j \in 1..n } }

\* a constructor that does not look at the host
BlueskyStrategyThrowsUnlessHost(options) ==
    options.identifier = NoValue \/ options.password = NoValue

\* constructor, lines 416-429
BlueskyStrategyThrows(options) ==
    options.identifier = NoValue \/ options.password = NoValue
        \/ options.host = NoValue

\* the TypeError the constructor throws
BlueskyStrategyError(options) ==
    TypeError(IF options.identifier = NoValue THEN "Missing identifier."
              ELSE IF options.password = NoValue THEN "Missing password."
              ELSE "Missing host.")

\* constructor, line 431, and the fields id and name
BlueskyStrategy(options) ==
    [id |-> "bluesky", name |-> "Bluesky", identifier |-> options.identifier,
     password |-> options.password, host |-> options.host]

\* the response null, and response?.uri: undefined for null, and for a
\* response without a uri
Null == [null |-> TRUE]

OptionalUri(response) ==
    IF "uri" \in DOMAIN response THEN response.uri ELSE NoValue

\* uri.split("/"): the pieces between the separators, empty ones included
RECURSIVE split(_)
split(uri) ==
    IF \A k \in 1..Len(uri) : uri[k] # "/" THEN <<uri>>
    ELSE LET k == CHOOSE j \in 1..Len(uri) :
                      uri[j] = "/" /\ \A h \in 1..(j - 1) : uri[h] # "/"
         IN  <<SubSeq(uri, 1, k - 1)>> \o split(SubSeq(uri, k + 1, Len(uri)))

\* a check that only looks for the uri property
getUrlFromResponseThrowsIfAbsent(response) == "uri" \notin DOMAIN response

\* getUrlFromResponse, lines 472-474
getUrlFromResponseThrows(response) == OptionalUri(response) = NoValue

getUrlFromResponseError == <<"Error", "Post URI not found in response">>

\* a URL made of the first piece of the uri
getUrlFromResponseFirstPart(strategy, response) ==
    <<"https://bsky.app/profile/">> \o strategy.identifier
        \o <<"/post/">> \o split(response.uri)[1]

\* getUrlFromResponse, lines 476-484
getUrlFromResponse(strategy, response) ==
    LET parts == split(response.uri)
        recordId == parts[Len(parts)]
    IN  <<"https://bsky.app/profile/">> \o strategy.identifier
            \o <<"/post/">> \o recordId

SuccessResponse(strategy, value) ==
    [ok |-> TRUE, response |-> value,
     url |-> getUrlFromResponse(strategy, value), reason |-> NoValue]

FailureResponse(reason) ==
    [ok |-> FALSE, response |-> NoValue, url |-> NoValue, reason |-> reason]

\* the entry of the result list for one settled post
ResponseOf(strategy, c) ==
    IF c.pc = "fulfilled" THEN SuccessResponse(strategy, c.value)
    ELSE FailureResponse(c.reason)

\* a result list that collects the entries in the order of completion
SettledResponsesInCompletionOrder(strats, calls) ==
    [k \in 1..Len(strats) |->
        ResponseOf(strats[settleOrder[k]], calls[settleOrder[k]])]

\* the result list: one entry per strategy, in the order of the strategies
SettledResponses(strats, calls) ==
    [i \in 1..Len(strats) |-> ResponseOf(strats[i], calls[i])]

\* the indices up to n of the settled calls, ascending
RECURSIVE SettledUpTo(_, _)
SettledUpTo(calls, n) ==
    IF n = 0 THEN <<>>
    ELSE IF Settled(calls[n]) THEN Append(SettledUpTo(calls, n - 1), n)
    ELSE SettledUpTo(calls, n - 1)

\* ------------------------------------------------------------------------
\* Initial states
\* ------------------------------------------------------------------------
\* the command lines: flags.image is "none" without --image, and else tells
\* whether the file can be read; positionals is positionals.length
CommandLines ==
    [version : BOOLEAN, help : BOOLEAN, mcp : BOOLEAN, file : BOOLEAN,
     image : {"none", "readable", "unreadable"}, positionals : 0..1]

\* the command line of a post of a message with these images
PostFlags(images) ==
    [version |-> FALSE, help |-> FALSE, mcp |-> FALSE, file |-> FALSE,
     image |-> IF images = <<>> THEN "none" ELSE "readable", positionals |-> 1]

\* the responses handed to getUrlFromResponse: null, one without a uri, one
\* with an empty uri, and uris with and without separators
UrlResponses ==
    { Null, [cid |-> "bafy"], [uri |-> NoValue, cid |-> "bafy"],
      [uri |-> <<"at:", "/", "/", "did:plc:abcxyz", "/", "app.bsky.feed.post", "/",
                 "123456789">>, cid |-> "bafy"],
      [uri |-> <<"at:", "/", "/", "did:plc:abcxyz", "/", "post", "/">>, cid |-> "bafy"],
      [uri |-> <<"123", "456">>, cid |-> "bafy"] }

\* the caller holds no response to ask the URL of
NoResponse == [none |-> TRUE]

\* before the call: the response the caller holds
UrlCallWith(response) ==
    [strategy |-> 0, response |-> response, url |-> NoValue, error |-> NoValue]

NoUrlCall == UrlCallWith(NoResponse)

InitWithResponse(commandLine, response, options, text, images, signal) ==
    /\ flags = commandLine
    /\ stderr = <<>>
    /\ urlCall = UrlCallWith(response)
    /\ strategyOptions = options
    /\ length = -1
    /\ strategies = <<>>
    /\ message = text
    /\ postOptions = [imagesType |-> images.imagesType, images |-> images.images,
                      signal |-> signal]
    /\ call = <<>>
    /\ settleOrder = <<>>
    /\ clientPc = "main"
    /\ responses = <<>>
    /\ output = <<>>
    /\ exitCode = -1

InitWithFlags(commandLine, options, text, images, signal) ==
    InitWithResponse(commandLine, NoResponse, options, text, images, signal)

InitWith(options, text, images, signal) ==
    InitWithFlags(PostFlags(images.images), options, text, images, signal)

\* a caller that holds a response of these strategies
InitUrl(options) ==
    \E response \in UrlResponses :
        InitWithResponse(PostFlags(<<>>), response, options, <<"x">>,
                         [imagesType |-> "array", images |-> <<>>], "none")

\* every command line, without a platform flag and with --bluesky
InitCommandLine ==
    \E commandLine \in CommandLines, options \in {<<>>, <<Options(1)>>} :
        InitWithFlags(commandLine, options,
                      IF commandLine.positionals = 0 /\ ~commandLine.file
                      THEN NoValue ELSE <<"x">>,
                      [imagesType |-> "array",
                       images |-> IF commandLine.image = "readable"
                                  THEN <<[data |-> "png", alt |-> "test image"]>>
                                  ELSE <<>>],
                      "none")

NoImages == [imagesType |-> "array", images |-> <<>>]

\* a broadcast to several adapters: of accounts of their own, twice the same
\* strategy, or one of them with invalid options
Init ==
    \E n \in 1..MaxAdapters, signal \in {"none", "idle"} :
        \/ \E text \in BroadcastMessages(n), images \in BroadcastImages(n) :
               InitWith([i \in 1..n |-> Options(i)], text,
                        [imagesType |-> "array", images |-> images], signal)
        \/ /\ n = 2
           /\ \E text \in BroadcastMessages(n), images \in BroadcastImages(n) :
                  InitWith([i \in 1..n |-> Options(1)], text,
                           [imagesType |-> "array", images |-> images], signal)
        \/ \E options \in InvalidOptionLists(n) :
               InitWith(options, <<"x">>, NoImages, signal)
        \/ n = 1 /\ signal = "none" /\ InitCommandLine
        \/ n = 1 /\ signal = "none" /\ InitUrl(<<Options(1), Options(2)>>)

\* one adapter: every message with one image at most, and every message of
\* one token at most with every list of images
InitPost ==
    \E signal \in {"none", "idle"} :
        \/ \E text \in Messages, images \in ImageOptions :
               /\ Len(images.images) <= 1 \/ text \in Tokens \cup {<<>>}
               /\ InitWith(<<Options(1)>>, text, images, signal)
        \/ \E text \in {<<>>, <<"x">>}, images \in InvalidImageOptions :
               InitWith(<<Options(1)>>, text, images, signal)
        \/ \E options \in InvalidOptionLists(1) :
               InitWith(options, <<"x">>, NoImages, signal)
        \/ signal = "none" /\ InitCommandLine
        \/ signal = "none" /\ InitUrl(<<Options(1)>>)

\* ------------------------------------------------------------------------
\* Actions
\* ------------------------------------------------------------------------
\* package.json's version
PackageVersion == "version"

\* a usage condition that does not ask for a message
ShowsUsageWithoutMessage ==
    \/ flags.help
    \/ strategyOptions = <<>> /\ ~flags.mcp

\* bin.js lines 94-107: the command line asks for the usage text, or lacks a
\* message or a platform
ShowsUsage ==
    \/ flags.help
    \/ ~flags.mcp /\ flags.positionals = 0 /\ ~flags.file
    \/ strategyOptions = <<>> /\ ~flags.mcp

\* an order of the checks that looks at --version last
EarlyExitVersionLast ==
    IF flags.mcp /\ flags.file THEN "file with mcp"
    ELSE IF ShowsUsage THEN "usage"
    ELSE IF flags.version THEN "version"
    ELSE "none"

\* bin.js lines 82, 89 and 94: the checks that end the run, in their order
EarlyExit ==
    IF flags.version THEN "version"
    ELSE IF flags.mcp /\ flags.file THEN "file with mcp"
    ELSE IF ShowsUsage THEN "usage"
    ELSE "none"

\* bin.js lines 82-127: the flags that end the run before any strategy is
\* constructed
Main ==
    /\ clientPc = "main"
    /\ CASE EarlyExit = "version" ->
                /\ output' = Append(output, PackageVersion)
                /\ exitCode' = 0
                /\ clientPc' = "stopped"
                /\ UNCHANGED stderr
         [] EarlyExit = "file with mcp" ->
                /\ stderr' = Append(stderr, "Error: --file cannot be used with --mcp")
                /\ exitCode' = 1
                /\ clientPc' = "stopped"
                /\ UNCHANGED output
         [] EarlyExit = "usage" ->
                /\ output' = Append(output,
                                    "Usage: crosspost [options] [\"Message to post.\"]")
                /\ exitCode' = 1
                /\ clientPc' = "stopped"
                /\ UNCHANGED stderr
         [] OTHER ->
                /\ clientPc' = IF strategyOptions = <<>> THEN "start" ELSE "new"
                /\ UNCHANGED <<stderr, output, exitCode>>
    /\ UNCHANGED <<flags, urlCall, strategyOptions, length, strategies, message,
                   postOptions, call, settleOrder, responses>>

\* new BlueskyStrategy(options), bin.js lines 179-186: the next strategy is
\* constructed and pushed; a constructor that throws ends the run
NewBlueskyStrategy ==
    /\ clientPc = "new"
    /\ LET options == strategyOptions[Len(strategies) + 1]
       IN  IF BlueskyStrategyThrows(options)
           THEN /\ clientPc' = "threw"
                /\ stderr' = Append(stderr, BlueskyStrategyError(options))
                /\ exitCode' = 1
                /\ UNCHANGED <<strategies, call>>
           ELSE /\ strategies' = Append(strategies, BlueskyStrategy(options))
                /\ call' = Append(call, NewCall)
                /\ clientPc' = IF Len(strategies') = Len(strategyOptions)
                               THEN "start" ELSE "new"
                /\ UNCHANGED <<stderr, exitCode>>
    /\ UNCHANGED <<flags, urlCall, strategyOptions, length, message, postOptions,
                   settleOrder, responses, output>>

\* strategy.calculateMessageLength(message), by a caller that only measures
CalculateMessageLength ==
    /\ clientPc = "start"
    /\ strategies # <<>>
    /\ clientPc' = "measured"
    /\ length' = calculateMessageLength(message)
    /\ UNCHANGED <<flags, stderr, urlCall, strategyOptions,
                   strategies, message, postOptions, call,
                   settleOrder, responses, output, exitCode>>

\* strategies[i].getUrlFromResponse(response), by a caller that only asks
\* for the URL of a response it holds
GetUrlFromResponse(i) ==
    /\ clientPc = "start"
    /\ urlCall.response # NoResponse
    /\ clientPc' = "gotUrl"
    /\ LET response == urlCall.response
       IN  urlCall' = IF getUrlFromResponseThrows(response)
                      THEN [strategy |-> i, response |-> response, url |-> NoValue,
                            error |-> getUrlFromResponseError]
                      ELSE [strategy |-> i, response |-> response,
                            url |-> getUrlFromResponse(strategies[i], response),
                            error |-> NoValue]
    /\ UNCHANGED <<flags, stderr, strategyOptions, length, strategies, message,
                   postOptions, call, settleOrder, responses, output, exitCode>>

\* a start that is reported with console.log
McpConnectLogs ==
    /\ clientPc = "start"
    /\ flags.mcp
    /\ clientPc' = "serving"
    /\ output' = Append(output,
                        "MCP server started. You can now send messages to it via stdin.")
    /\ UNCHANGED <<flags, stderr, urlCall, strategyOptions, length, strategies, message,
                   postOptions, call, settleOrder, responses, exitCode>>

\* bin.js lines 269-275: the MCP server is connected over the strategies and
\* the start is reported
McpConnect ==
    /\ clientPc = "start"
    /\ flags.mcp
    /\ clientPc' = "serving"
    /\ stderr' = Append(stderr,
                        "MCP server started. You can now send messages to it via stdin.")
    /\ UNCHANGED <<flags, urlCall, strategyOptions, length, strategies, message,
                   postOptions, call, settleOrder, responses, output, exitCode>>

\* bin.js lines 277-293: the image file cannot be read
ReadImageFails ==
    /\ clientPc = "start"
    /\ ~flags.mcp
    /\ flags.image = "unreadable"
    /\ clientPc' = "stopped"
    /\ stderr' = Append(stderr, "Error reading image file")
    /\ exitCode' = 1
    /\ UNCHANGED <<flags, urlCall, strategyOptions, length, strategies, message,
                   postOptions, call, settleOrder, responses, output>>

\* adapter i's post moves on to state c
Resume(i, c) ==
    /\ call' = [call EXCEPT ![i] = c]
    /\ settleOrder' = IF Settled(c) THEN Append(settleOrder, i) ELSE settleOrder

\* the caller's signal fires
AbortSignal ==
    /\ clientPc \in {"start", "posting"}
    /\ postOptions.signal = "idle"
    /\ postOptions' = [postOptions EXCEPT !.signal = "aborted"]
    /\ UNCHANGED <<flags, stderr, urlCall, strategyOptions,
                   length, strategies, message, call, settleOrder, clientPc,
                   responses, output, exitCode>>

\* client.post(message, postOptions): every strategy's post is called, in
\* order, and runs up to its first await
ClientPost ==
    /\ clientPc = "start"
    /\ ~flags.mcp
    /\ flags.image # "unreadable"
    /\ clientPc' = "posting"
    /\ call' = [i \in Adapters |-> post(strategies[i], message, postOptions)]
    /\ settleOrder' = SettledUpTo(call', Len(strategies))
    /\ UNCHANGED <<flags, stderr, urlCall, strategyOptions,
                   length, strategies, message, postOptions, responses,
                   output, exitCode>>

\* a strategy that keeps the session of an earlier post and uses it again
CreateSessionSettlesCached(i, outcome) ==
    /\ call[i].pc = "createSession"
    /\ outcome \in Settlements(call[i])
    /\ LET c == Settle(call[i], outcome)
           earlier == {j \in Adapters : /\ strategies[j] = strategies[i]
                                        /\ call[j].session # NoSession}
           session == IF earlier = {} THEN SessionOf(c.requests[1].body, i)
                      ELSE call[Min(earlier)].session
       IN  Resume(i, CASE outcome = "ok" ->
                              postMessage(c, session, message, postOptions.images,
                                          aborted)
                       [] outcome = "http_error" ->
                              Reject(c, HttpError(Response(c), "Failed to create session"))
                       [] OTHER -> Reject(c, FetchError(outcome)))
    /\ UNCHANGED <<flags, stderr, urlCall, strategyOptions,
                   length, strategies, message, postOptions,
                   clientPc, responses, output, exitCode>>

\* a createSession that takes the body of any response for a session
CreateSessionSettlesUnchecked(i, outcome) ==
    /\ call[i].pc = "createSession"
    /\ outcome \in Settlements(call[i])
    /\ LET c == Settle(call[i], outcome)
       IN  Resume(i, CASE outcome \in {"ok", "http_error"} ->
                              postMessage(c, SessionOf(c.requests[1].body, i),
                                          message, postOptions.images, aborted)
                       [] OTHER -> Reject(c, FetchError(outcome)))
    /\ UNCHANGED <<flags, stderr, urlCall, strategyOptions, length, strategies,
                   message, postOptions, clientPc, responses, output, exitCode>>

\* createSession, lines 276-286, and on success post line 463
CreateSessionSettles(i, outcome) ==
    /\ call[i].pc = "createSession"
    /\ outcome \in Settlements(call[i])
    /\ LET c == Settle(call[i], outcome)
       IN  Resume(i, CASE outcome = "ok" ->
                              postMessage(c, SessionOf(c.requests[1].body, i),
                                          message, postOptions.images, aborted)
                       [] outcome = "http_error" ->
                              Reject(c, HttpError(Response(c), "Failed to create session"))
                       [] OTHER -> Reject(c, FetchError(outcome)))
    /\ UNCHANGED <<flags, stderr, urlCall, strategyOptions,
                   length, strategies, message, postOptions, clientPc, responses,
                   output, exitCode>>

\* a lookup whose failure keeps the mention, unresolved
ResolveHandleSettlesKeepsFailed(i, outcome) ==
    /\ call[i].pc = "resolveHandle"
    /\ outcome \in Settlements(call[i])
    /\ LET c == Settle(call[i], outcome)
           feature == c.rawFacets[c.facetIdx].features[c.featureIdx]
           next == IF outcome = "ok"
                   THEN [c EXCEPT !.processedFeatures =
                                      Append(@, resolvedFeature(feature, DidOf(feature.did))),
                                  !.featureIdx = @ + 1]
                   ELSE [c EXCEPT !.processedFeatures = Append(@, feature),
                                  !.featureIdx = @ + 1]
       IN  Resume(i, resolveMentionFacets(next, postOptions.images, aborted))
    /\ UNCHANGED <<flags, stderr, urlCall, strategyOptions,
                   length, strategies, message, postOptions, clientPc,
                   responses, output, exitCode>>

\* a lookup whose error is not caught: it rejects the post
ResolveHandleSettlesUncaught(i, outcome) ==
    /\ call[i].pc = "resolveHandle"
    /\ outcome \in Settlements(call[i])
    /\ LET c == Settle(call[i], outcome)
           feature == c.rawFacets[c.facetIdx].features[c.featureIdx]
           next == [c EXCEPT !.processedFeatures =
                                 Append(@, resolvedFeature(feature, DidOf(feature.did))),
                             !.featureIdx = @ + 1]
       IN  Resume(i, CASE outcome = "ok" ->
                              resolveMentionFacets(next, postOptions.images, aborted)
                       [] outcome = "http_error" ->
                              Reject(c, HttpError(Response(c), "Failed to resolve handle"))
                       [] OTHER -> Reject(c, FetchError(outcome)))
    /\ UNCHANGED <<flags, stderr, urlCall, strategyOptions,
                   length, strategies, message, postOptions, clientPc,
                   responses, output, exitCode>>

\* resolveHandle, lines 150-163, and the try/catch of lines 221-236
ResolveHandleSettles(i, outcome) ==
    /\ call[i].pc = "resolveHandle"
    /\ outcome \in Settlements(call[i])
    /\ LET c == Settle(call[i], outcome)
           feature == c.rawFacets[c.facetIdx].features[c.featureIdx]
           next == IF outcome = "ok"
                   THEN [c EXCEPT !.processedFeatures =
                                      Append(@, resolvedFeature(feature, DidOf(feature.did))),
                                  !.featureIdx = @ + 1]
                   ELSE [c EXCEPT !.featureIdx = @ + 1]
       IN  Resume(i, resolveMentionFacets(next, postOptions.images, aborted))
    /\ UNCHANGED <<flags, stderr, urlCall, strategyOptions,
                   length, strategies, message, postOptions, clientPc,
                   responses, output, exitCode>>

\* an upload loop that goes on to the next image after a non-success response
UploadImageSettlesSkipsFailed(i, outcome) ==
    /\ call[i].pc = "uploadBlob"
    /\ outcome \in Settlements(call[i])
    /\ LET c == Settle(call[i], outcome)
           image == postOptions.images[c.imageIdx]
       IN  Resume(i, CASE outcome = "ok" /\ imageSizeThrows(image.data) ->
                              Reject(c, TypeError("unsupported file type"))
                       [] outcome = "ok" /\ ~imageSizeThrows(image.data) ->
                              UploadImages(
                                  [c EXCEPT !.images =
                                                pushImage(@, image,
                                                          BlobOf(image.data,
                                                                 c.session.accessJwt)),
                                            !.imageIdx = @ + 1],
                                  postOptions.images, aborted)
                       [] outcome = "http_error" ->
                              UploadImages([c EXCEPT !.imageIdx = @ + 1],
                                           postOptions.images, aborted)
                       [] OTHER -> Reject(c, FetchError(outcome)))
    /\ UNCHANGED <<flags, stderr, urlCall, strategyOptions, length, strategies,
                   message, postOptions, clientPc, responses, output, exitCode>>

\* uploadImage, lines 187-199, and the loop body of lines 326-341
UploadImageSettles(i, outcome) ==
    /\ call[i].pc = "uploadBlob"
    /\ outcome \in Settlements(call[i])
    /\ LET c == Settle(call[i], outcome)
           image == postOptions.images[c.imageIdx]
       IN  Resume(i, CASE outcome = "ok" /\ imageSizeThrows(image.data) ->
                              Reject(c, TypeError("unsupported file type"))
                       [] outcome = "ok" /\ ~imageSizeThrows(image.data) ->
                              UploadImages(
                                  [c EXCEPT !.images =
                                                pushImage(@, image,
                                                          BlobOf(image.data,
                                                                 c.session.accessJwt)),
                                            !.imageIdx = @ + 1],
                                  postOptions.images, aborted)
                       [] outcome = "http_error" ->
                              Reject(c, HttpError(Response(c), "Failed to upload image"))
                       [] OTHER -> Reject(c, FetchError(outcome)))
    /\ UNCHANGED <<flags, stderr, urlCall, strategyOptions,
                   length, strategies, message, postOptions, clientPc,
                   responses, output, exitCode>>

\* a createRecord that is submitted once more after a non-success response
CreateRecordSettlesRetry(i, outcome) ==
    /\ call[i].pc = "createRecord"
    /\ outcome \in Settlements(call[i])
    /\ LET c == Settle(call[i], outcome)
           request == c.requests[Len(c.requests)]
           first == \A k \in 1..Len(c.requests) - 1 : c.requests[k].url # "createRecord"
       IN  Resume(i, CASE outcome = "ok" -> Fulfil(c, RecordOf(request.body))
                       [] outcome = "http_error" /\ first -> SubmitRecord(c, aborted)
                       [] outcome = "http_error" /\ ~first ->
                              Reject(c, HttpError(Response(c), "Failed to post message"))
                       [] OTHER -> Reject(c, FetchError(outcome)))
    /\ UNCHANGED <<flags, stderr, urlCall, strategyOptions,
                   length, strategies, message, postOptions,
                   clientPc, responses, output, exitCode>>

\* a createRecord whose rejected request is caught and never reported
CreateRecordSettlesSwallows(i, outcome) ==
    /\ call[i].pc = "createRecord"
    /\ outcome \in Settlements(call[i])
    /\ LET c == Settle(call[i], outcome)
           request == c.requests[Len(c.requests)]
       IN  Resume(i, CASE outcome = "ok" -> Fulfil(c, RecordOf(request.body))
                       [] outcome = "http_error" ->
                              Reject(c, HttpError(Response(c), "Failed to post message"))
                       [] OTHER -> c)
    /\ UNCHANGED <<flags, stderr, urlCall, strategyOptions, length, strategies,
                   message, postOptions, clientPc, responses, output, exitCode>>

\* postMessage, lines 361-373
CreateRecordSettles(i, outcome) ==
    /\ call[i].pc = "createRecord"
    /\ outcome \in Settlements(call[i])
    /\ LET c == Settle(call[i], outcome)
           request == c.requests[Len(c.requests)]
       IN  Resume(i, CASE outcome = "ok" -> Fulfil(c, RecordOf(request.body))
                       [] outcome = "http_error" ->
                              Reject(c, HttpError(Response(c), "Failed to post message"))
                       [] OTHER -> Reject(c, FetchError(outcome)))
    /\ UNCHANGED <<flags, stderr, urlCall, strategyOptions,
                   length, strategies, message, postOptions, clientPc,
                   responses, output, exitCode>>

\* a client.post that resolves as soon as one post has rejected
ClientSettlesFailFast ==
    /\ clientPc = "posting"
    /\ \/ \A i \in Adapters : Settled(call[i])
       \/ \E i \in Adapters : call[i].pc = "rejected"
    /\ clientPc' = "responded"
    /\ responses' = SettledResponses(strategies, call)
    /\ UNCHANGED <<flags, stderr, urlCall, strategyOptions,
                   length, strategies, message, postOptions, call, settleOrder,
                   output, exitCode>>

\* client.post resolves once every strategy's post has settled
ClientSettles ==
    /\ clientPc = "posting"
    /\ \A i \in Adapters : Settled(call[i])
    /\ clientPc' = "responded"
    /\ responses' = SettledResponses(strategies, call)
    /\ UNCHANGED <<flags, stderr, urlCall, strategyOptions,
                   length, strategies, message, postOptions, call, settleOrder,
                   output, exitCode>>

\* the reports in the reverse of the strategies' order
ReportLineReversed(strats, rs, index) ==
    [name |-> strats[index].name, ok |-> rs[Len(rs) + 1 - index].ok,
     detail |-> IF rs[Len(rs) + 1 - index].ok
                THEN rs[Len(rs) + 1 - index].url ELSE NoValue]

\* bin.js lines 306-321: one report per response, then exit
ReportLine(strats, rs, index) ==
    [name |-> strats[index].name, ok |-> rs[index].ok,
     detail |-> IF rs[index].ok THEN rs[index].url ELSE NoValue]

\* the reasons of the failed responses, in order
RECURSIVE Reasons(_)
Reasons(rs) ==
    IF rs = <<>> THEN <<>>
    ELSE (IF Head(rs).ok THEN <<>> ELSE <<Head(rs).reason>>) \o Reasons(Tail(rs))

Report ==
    /\ clientPc = "responded"
    /\ clientPc' = "exited"
    /\ output' = output \o [index \in 1..Len(responses) |->
                                ReportLine(strategies, responses, index)]
    /\ stderr' = stderr \o Reasons(responses)
    /\ exitCode' = IF \E index \in 1..Len(responses) : ~responses[index].ok
                   THEN 1 ELSE 0
    /\ UNCHANGED <<flags, urlCall, strategyOptions, length, strategies, message,
                   postOptions, call, settleOrder, responses>>

Next ==
    \/ Main
    \/ NewBlueskyStrategy
    \/ CalculateMessageLength
    \/ \E i \in Adapters : GetUrlFromResponse(i)
    \/ McpConnect
    \/ ReadImageFails
    \/ AbortSignal
    \/ ClientPost
    \/ \E i \in Adapters, outcome \in Outcomes \cup {"abort"} :
           CreateSessionSettles(i, outcome)
    \/ \E i \in Adapters, outcome \in Outcomes \cup {"abort"} :
           ResolveHandleSettles(i, outcome)
    \/ \E i \in Adapters, outcome \in Outcomes \cup {"abort"} :
           UploadImageSettles(i, outcome)
    \/ \E i \in Adapters, outcome \in Outcomes \cup {"abort"} :
           CreateRecordSettles(i, outcome)
    \/ ClientSettles
    \/ Report

Spec == Init /\ [][Next]_vars

SpecPost == InitPost /\ [][Next]_vars

\* the posts whose settling is followed to the end: one adapter, with no
\* mention, one mention and two, and with up to two images
InitLive ==
    \E signal \in {"none", "idle"} :
        \/ \E text \in BroadcastMessages(1)
                         \cup {<<>>, <<"@", "a", " ">> \o <<"@", "b", ".", "a", "!">>},
              images \in BroadcastImages(1) :
               InitWith(<<Options(1)>>, text,
                        [imagesType |-> "array", images |-> images], signal)
        \/ signal = "none" /\ InitCommandLine
        \/ signal = "none" /\ InitUrl(<<Options(1)>>)

\* the post of the adapter is suspended on a request
PostPending ==
    IF 1 \in Adapters THEN call[1].pc # "idle" /\ ~Settled(call[1]) ELSE FALSE

\* the request the adapter's post is suspended on receives its response, or
\* its rejection
RequestSettles ==
    /\ 1 \in Adapters
    /\ \E outcome \in Outcomes \cup {"abort"} :
           \/ CreateSessionSettles(1, outcome)
           \/ ResolveHandleSettles(1, outcome)
           \/ UploadImageSettles(1, outcome)
           \/ CreateRecordSettles(1, outcome)

\* weak fairness of RequestSettles, which is enabled exactly while the post
\* is suspended on a request: every request that is issued receives a
\* response or is rejected, by an abort or otherwise, in the end
EveryRequestSettles == []<>(~PostPending) \/ []<><<RequestSettles>>_vars

\* every request settles in the end, and the continuations that are ready
\* run: client.post resolves when every post has settled, and its caller
\* reports
SpecLive ==
    /\ InitLive
    /\ [][Next]_vars
    /\ EveryRequestSettles
    /\ WF_vars(ClientSettles)
    /\ WF_vars(Report)

\* ------------------------------------------------------------------------
\* Properties
\* ------------------------------------------------------------------------
RequestUrls == {"createSession", "resolveHandle", "uploadBlob", "createRecord"}

InFlight(c) == c.pc \in RequestUrls

Responded == clientPc \in {"responded", "exited"}

\* the request the post last issued
LastRequest(c) == c.requests[Len(c.requests)]

\* a rejected post was rejected by something of its own: its arguments, its
\* own failed request, its image data, or the caller's signal
RejectedByItsOwn(c) ==
    \/ c.requests = <<>>
    \/ LastRequest(c).outcome \in {"http_error", "network_error", "abort"}
    \/ c.reason = TypeError("unsupported file type")
    \/ aborted /\ c.reason = AbortError

\* C1: whatever the order in which the adapters' posts complete, and also
\* when an adapter in the middle of the list fails, the result list of
\* client.post has one entry per adapter and entry i is the outcome of the
\* post of adapter i: ok exactly when that post fulfilled, with its value,
\* and otherwise with its rejection reason.
C1_ResultsAligned ==
    Responded =>
        /\ Len(responses) = Len(strategies)
        /\ \A i \in Adapters :
              /\ responses[i].ok = (call[i].pc = "fulfilled")
              /\ responses[i].ok => responses[i].response = call[i].value
              /\ ~responses[i].ok => responses[i].reason = call[i].reason

\* three adapters, the middle one failed, the other two succeeded, and the
\* posts did not complete in list order
C1_Witness ==
    /\ clientPc = "responded"
    /\ Len(strategies) >= 3
    /\ settleOrder[1] # 1
    /\ responses[1].ok /\ ~responses[2].ok /\ responses[3].ok
    /\ call[2].pc = "rejected"

\* C2: when the post of one adapter fails, the post of every other adapter
\* has been invoked, is left untouched by the failing step, is rejected only
\* by a failure of its own, has run to completion before client.post
\* resolves, and has the result entry of its own outcome.
C2_FailureIsolated ==
    /\ [](\A i, j \in Adapters :
            (i # j /\ call[i].pc = "rejected") =>
                /\ call[j].pc # "idle"
                /\ call[j].pc = "rejected" => RejectedByItsOwn(call[j])
                /\ Responded =>
                      /\ Settled(call[j])
                      /\ responses[j].ok = (call[j].pc = "fulfilled")
                      /\ responses[j].response = call[j].value
                      /\ responses[j].reason = call[j].reason)
    /\ [][\A i \in Adapters :
            (call[i].pc # "rejected" /\ call'[i].pc = "rejected"
             /\ clientPc = "posting") =>
                \A j \in Adapters \ {i} : call'[j] = call[j]]_vars

\* one adapter was rejected by the platform before another one, whose post
\* then ran on and succeeded
C2_Witness ==
    /\ clientPc = "responded"
    /\ \E i, j \in Adapters :
          /\ i # j
          /\ call[i].reason = HttpError(ErrorResponseOf("createSession"), "Failed to create session")
          /\ settleOrder[1] = i
          /\ call[j].pc = "fulfilled"
          /\ responses[j].ok /\ ~responses[i].ok

\* the errors a post rejects with
PostErrors ==
    {TypeError("Missing message to post."), AbortError,
     TypeError("images must be an array."), TypeError("Image must have data."),
     TypeError("Image data must be a Uint8Array."),
     TypeError("fetch failed"), TypeError("unsupported file type"),
     HttpError(ErrorResponseOf("createSession"), "Failed to create session"),
     HttpError(ErrorResponseOf("uploadBlob"), "Failed to upload image"),
     HttpError(ErrorResponseOf("createRecord"), "Failed to post message")}

\* C3 as stated: an error raised inside an adapter's post is caught at the
\* post boundary, so that no post call ever rejects.
C3_NoRejectionEscapes ==
    \A i \in Adapters : call[i].pc # "rejected"

\* C3 as amended: a validation or platform error raised inside post rejects
\* that post call; client.post turns the rejection into that adapter's own
\* entry {ok: false, reason} with that error as the reason, and only an
\* adapter whose own post rejected has such an entry.  The error of a failed
\* handle lookup is caught inside post and is never the reason of an entry.
C3_ErrorsBecomeEntries ==
    /\ \A i \in Adapters :
          call[i].pc = "rejected" => call[i].reason \in PostErrors
    /\ Responded =>
          \A i \in Adapters :
              /\ call[i].pc = "rejected" =>
                    /\ ~responses[i].ok
                    /\ responses[i].reason = call[i].reason
                    /\ responses[i].response = NoValue
              /\ ~responses[i].ok => call[i].pc = "rejected"

\* a platform error in one adapter and a failed lookup in another, whose
\* post succeeded all the same
C3_Witness ==
    /\ clientPc = "responded"
    /\ \E i, j \in Adapters :
          /\ ~responses[i].ok
          /\ responses[i].reason = HttpError(ErrorResponseOf("createRecord"), "Failed to post message")
          /\ responses[j].ok
          /\ \E k \in 1..Len(call[j].requests) :
                /\ call[j].requests[k].url = "resolveHandle"
                /\ call[j].requests[k].outcome = "http_error"

\* C4: once the caller's signal has fired while a post has a request in
\* flight (session creation, handle lookup, blob upload or record creation),
\* that request can only end in the abort rejection, and the post settles in
\* no other way than by rejecting with the abort error.
C4_AbortRejects ==
    /\ [](\A i \in Adapters :
            (aborted /\ InFlight(call[i])) => Settlements(call[i]) = {"abort"})
    /\ [][\A i \in Adapters :
            (aborted /\ InFlight(call[i]) /\ call'[i] # call[i]) =>
                /\ call'[i].pc = "rejected"
                /\ call'[i].reason = AbortError]_vars

\* the signal fired during a handle lookup, the lookup's rejection was
\* caught, and the post rejected with the abort error
C4_Witness ==
    \E i \in Adapters :
        /\ call[i].pc = "rejected"
        /\ call[i].reason = AbortError
        /\ call[i].requests # <<>>
        /\ LastRequest(call[i]).url = "resolveHandle"
        /\ LastRequest(call[i]).outcome = "abort"

\* the createRecord request has been submitted
Submitted(c) == c.pc = "createRecord"

\* the record of the createRecord request
Record(c) == LastRequest(c).body.record

IsMention(facet) ==
    \E k \in 1..Len(facet.features) : facet.features[k].type = "mention"

IsLookup(request) == request.url = "resolveHandle"

\* the handle lookups of a post, in the order in which they were made
Lookups(c) == SelectSeq(c.requests, IsLookup)

\* the detected mention facets, in the order of detection
DetectedMentions(c) == SelectSeq(c.rawFacets, IsMention)

Indexes(facets) == [k \in 1..Len(facets) |-> facets[k].index]

\* the n-th detected mention was looked up and the lookup succeeded
Resolved(c, n) == n <= Len(Lookups(c)) /\ Lookups(c)[n].outcome = "ok"

RECURSIVE ResolvedMentions(_, _)
ResolvedMentions(c, n) ==
    IF n = 0 THEN <<>>
    ELSE IF Resolved(c, n)
         THEN Append(ResolvedMentions(c, n - 1), DetectedMentions(c)[n])
         ELSE ResolvedMentions(c, n - 1)

\* C5: whichever handle lookups fail (error or non-success response), the
\* post is not rejected by the failure and goes on to submit the record, and
\* the mention facets of the submitted record are exactly those of the
\* detected mentions whose lookup succeeded; no other facet is dropped.
C5_FailedMentionsDropped ==
    \A i \in Adapters :
        LET c == call[i]
        IN  /\ (c.pc = "rejected" /\ c.requests # <<>>) =>
                  ~(/\ LastRequest(c).url = "resolveHandle"
                    /\ LastRequest(c).outcome \in {"http_error", "network_error"})
            /\ Submitted(c) =>
                  /\ Len(Lookups(c)) = Len(DetectedMentions(c))
                  /\ Indexes(SelectSeq(Record(c).facets, IsMention))
                        = Indexes(ResolvedMentions(c, Len(DetectedMentions(c))))
                  /\ Len(Record(c).facets)
                        = Len(c.rawFacets) - Len(DetectedMentions(c))
                          + Len(ResolvedMentions(c, Len(DetectedMentions(c))))

\* two mentions, the first lookup failed and the second succeeded, and the
\* post succeeded with the one mention facet
C5_Witness ==
    \E i \in Adapters :
        /\ call[i].pc = "fulfilled"
        /\ Len(DetectedMentions(call[i])) = 2
        /\ Lookups(call[i])[1].outcome \in {"http_error", "network_error"}
        /\ Lookups(call[i])[2].outcome = "ok"
        /\ Len(SelectSeq(Record(call[i]).facets, IsMention)) = 1

\* C6: every mention feature of the submitted record carries the DID that a
\* successful lookup of the handle of its own facet returned, at the byte
\* range of that facet as detected; it never carries the handle itself.
C6_MentionsCarryResolvedDid ==
    \A i \in Adapters :
        Submitted(call[i]) =>
            \A k \in 1..Len(Record(call[i]).facets) :
                LET facet == Record(call[i]).facets[k]
                IN  \A m \in 1..Len(facet.features) :
                        facet.features[m].type = "mention" =>
                            \E n \in 1..Len(DetectedMentions(call[i])) :
                                LET detected == DetectedMentions(call[i])[n]
                                IN  /\ detected.index = facet.index
                                    /\ Resolved(call[i], n)
                                    /\ Lookups(call[i])[n].body = detected.features[m].did
                                    /\ facet.features[m].did = DidOf(detected.features[m].did)
                                    /\ facet.features[m].did # detected.features[m].did

\* a record with two mention facets was accepted
C6_Witness ==
    \E i \in Adapters :
        /\ call[i].pc = "fulfilled"
        /\ Len(SelectSeq(Record(call[i]).facets, IsMention)) = 2
        /\ Record(call[i]).facets[1].features[1].did
              # Record(call[i]).facets[2].features[1].did

\* the facets of a list whose byte range is among those of kept
KeptOf(facets, kept) ==
    LET IsKept(facet) == \E k \in 1..Len(kept) : kept[k].index = facet.index
    IN  SelectSeq(facets, IsKept)

IsOther(facet) == ~IsMention(facet)

\* C7: the facets that mention resolution hands on are a sub-list of the
\* detected facets in the detected order, so ascending by byteStart whatever
\* the outcomes of the lookups, and the link and hashtag facets are all
\* there, unchanged.
C7_OrderPreservingSublist ==
    \A i \in Adapters :
        Submitted(call[i]) =>
            LET facets == Record(call[i]).facets
            IN  /\ Indexes(facets) = Indexes(KeptOf(call[i].rawFacets, facets))
                /\ \A k \in 1..Len(facets) - 1 :
                      facets[k].index.byteStart < facets[k + 1].index.byteStart
                /\ SelectSeq(facets, IsOther) = SelectSeq(call[i].rawFacets, IsOther)

\* a link or hashtag between two mentions of which one was dropped
C7_Witness ==
    \E i \in Adapters :
        /\ Submitted(call[i])
        /\ Len(call[i].rawFacets) = 3
        /\ Len(Record(call[i]).facets) = 2
        /\ IsMention(call[i].rawFacets[1])
        /\ IsOther(call[i].rawFacets[2])
        /\ IsMention(call[i].rawFacets[3])

\* C8: the facets of the submitted record are in ascending order of
\* byteStart and adjacent facets do not overlap: each ends at or before the
\* start of the next.
C8_SortedNonOverlapping ==
    \A i \in Adapters :
        Submitted(call[i]) =>
            LET facets == Record(call[i]).facets
            IN  \A k \in 1..Len(facets) - 1 :
                    /\ facets[k].index.byteStart < facets[k + 1].index.byteStart
                    /\ facets[k].index.byteEnd <= facets[k + 1].index.byteStart

\* a record with a resolved mention and two facets that touch
C8_Witness ==
    \E i \in Adapters :
        /\ Submitted(call[i])
        /\ LET facets == Record(call[i]).facets
           IN  /\ Len(facets) >= 2
               /\ \E k \in 1..Len(facets) : IsMention(facets[k])
               /\ \E k \in 1..Len(facets) - 1 :
                      facets[k].index.byteEnd = facets[k + 1].index.byteStart

\* C9: every facet of the submitted record is a non-empty byte range inside
\* the text of the same record: 0 <= byteStart < byteEnd <= the UTF-8 length
\* of the text as submitted, after URL truncation.
C9_FacetsWithinText ==
    \A i \in Adapters :
        Submitted(call[i]) =>
            \A k \in 1..Len(Record(call[i]).facets) :
                LET index == Record(call[i]).facets[k].index
                IN  /\ 0 <= index.byteStart
                    /\ index.byteStart < index.byteEnd
                    /\ index.byteEnd <= Utf8Len(Record(call[i]).text)

\* a truncated URL with a multi-byte character ends the submitted text
C9_Witness ==
    \E i \in Adapters :
        /\ Submitted(call[i])
        /\ Record(call[i]).text # message
        /\ Utf8Len(Record(call[i]).text) > Len(Record(call[i]).text)
        /\ \E k \in 1..Len(Record(call[i]).facets) :
               Record(call[i]).facets[k].index.byteEnd = Utf8Len(Record(call[i]).text)

\* the URLs of a message, in order: the matches of /https?:\/\/[^\s]+/g
RECURSIVE UrlsFrom(_, _)
UrlsFrom(s, i) ==
    LET j == NextUrl(s, i)
    IN  IF j > Len(s) THEN <<>>
        ELSE <<SubSeq(s, j, UrlMatchEnd(s, j))>> \o UrlsFrom(s, UrlMatchEnd(s, j) + 1)

IsLink(facet) == \E k \in 1..Len(facet.features) : facet.features[k].type = "link"

\* the text has shown at the byte range index
ShownAt(text, index, shown) ==
    \E a \in 0..Len(text) - Len(shown) :
        /\ Utf8Len(SubSeq(text, 1, a)) = index.byteStart
        /\ Utf8Len(SubSeq(text, 1, a + Len(shown))) = index.byteEnd
        /\ SubSeq(text, a + 1, a + Len(shown)) = shown

\* C10: the k-th URL of the message has the k-th link facet of the submitted
\* record, whose target is the URL as written.  At the facet's range the
\* submitted text shows the URL itself when the URL has at most 27 UTF-16
\* code units, and otherwise a form of 27 code units: the first 24 of the
\* URL and the three dots of the ellipsis marker.
C10_UrlTruncation ==
    \A i \in Adapters :
        Submitted(call[i]) =>
            LET urls == UrlsFrom(message, 1)
                links == SelectSeq(Record(call[i]).facets, IsLink)
                kept == URL_LENGTH_LIMIT - Len(ELLIPSIS)
            IN  /\ Len(links) = Len(urls)
                /\ \A k \in 1..Len(urls) :
                      /\ links[k].features[1].uri = urls[k]
                      /\ Len(urls[k]) <= URL_LENGTH_LIMIT =>
                            ShownAt(Record(call[i]).text, links[k].index, urls[k])
                      /\ Len(urls[k]) > URL_LENGTH_LIMIT =>
                            /\ Len(SubSeq(urls[k], 1, kept) \o ELLIPSIS) = URL_LENGTH_LIMIT
                            /\ ShownAt(Record(call[i]).text, links[k].index,
                                       SubSeq(urls[k], 1, kept) \o ELLIPSIS)

\* a message with a URL of 28 code units and one of 27, both submitted
C10_Witness ==
    \E i \in Adapters :
        /\ Submitted(call[i])
        /\ LET links == SelectSeq(Record(call[i]).facets, IsLink)
           IN  /\ Len(links) = 2
               /\ Len(links[1].features[1].uri) = URL_LENGTH_LIMIT + 1
               /\ Len(links[2].features[1].uri) = URL_LENGTH_LIMIT
               /\ Len(Record(call[i]).text) = Len(message) - 1

\* what the text shows for a facet: the URL, truncated when long, "@" and
\* the handle, or "#" and the tag
Displayed(feature) ==
    CASE feature.type = "link" ->
             IF Len(feature.uri) > URL_LENGTH_LIMIT
             THEN SubSeq(feature.uri, 1, URL_LENGTH_LIMIT - Len(ELLIPSIS)) \o ELLIPSIS
             ELSE feature.uri
      [] feature.type = "mention" ->
             <<"@">> \o SubSeq(feature.did, 2, Len(feature.did))
      [] OTHER -> <<"#">> \o feature.tag

\* shown stands in the text after a code units, at the byte range index:
\* byteStart is the UTF-8 length of the text before it and the range has
\* the UTF-8 length of shown
SpanAt(text, index, shown, a) ==
    /\ a + Len(shown) <= Len(text)
    /\ SubSeq(text, a + 1, a + Len(shown)) = shown
    /\ index.byteStart = Utf8Len(SubSeq(text, 1, a))
    /\ index.byteEnd - index.byteStart = Utf8Len(shown)

\* C11: for every facet of the submitted record, byteStart is the UTF-8
\* byte length of the submitted text before the span and byteEnd - byteStart
\* the UTF-8 byte length of the span as the submitted text shows it.
C11_ByteOffsets ==
    \A i \in Adapters :
        Submitted(call[i]) =>
            \A k \in 1..Len(Record(call[i]).facets) :
                LET facet == Record(call[i]).facets[k]
                IN  \E a \in 0..Len(Record(call[i]).text) :
                        SpanAt(Record(call[i]).text, facet.index,
                               Displayed(facet.features[1]), a)

\* a hashtag ends a text that has 4-byte characters and a truncated URL
\* before it: its byteStart is neither its UTF-16 index, nor the count of
\* characters before it, nor its byte offset in the message as given
C11_Witness ==
    \E i \in Adapters :
        /\ Submitted(call[i])
        /\ \E k \in 1..Len(Record(call[i]).facets) :
               LET facet == Record(call[i]).facets[k]
                   text == Record(call[i]).text
                   shown == Displayed(facet.features[1])
                   a == Len(text) - Len(shown)
                   a0 == Len(message) - Len(shown)
               IN  /\ a >= 0
                   /\ SpanAt(text, facet.index, shown, a)
                   /\ facet.index.byteStart # a
                   /\ facet.index.byteStart # ScalarCount(SubSeq(text, 1, a))
                   /\ a # ScalarCount(SubSeq(text, 1, a))
                   /\ facet.index.byteStart # Utf8Len(SubSeq(message, 1, a0))

\* C12: no strategy exists whose identifier, password or host is missing or
\* empty: constructing one with such options throws a TypeError that names
\* a missing field, the run ends there, and no request has been made.
C12_ConstructorValidates ==
    /\ \A i \in Adapters :
          /\ strategies[i].identifier # NoValue
          /\ strategies[i].password # NoValue
          /\ strategies[i].host # NoValue
    /\ \A k \in 1..Len(strategyOptions) :
          (\E f \in {"identifier", "password", "host"} : strategyOptions[k][f] = NoValue)
              => /\ Len(strategies) < k
                 /\ clientPc \in {"main", "new", "threw"}
    /\ clientPc = "threw" =>
          LET options == strategyOptions[Len(strategies) + 1]
          IN  /\ \E f \in {"identifier", "password", "host"} :
                    /\ options[f] = NoValue
                    /\ stderr = <<TypeError(CASE f = "identifier" -> "Missing identifier."
                                              [] f = "password" -> "Missing password."
                                              [] OTHER -> "Missing host.")>>
              /\ \A i \in 1..Len(call) : call[i].requests = <<>>

\* the second strategy of a list was constructed without a host
C12_Witness ==
    /\ clientPc = "threw"
    /\ Len(strategies) = 1
    /\ strategyOptions[2].host = NoValue
    /\ strategyOptions[2].identifier # NoValue

InvalidImages(options) ==
    \/ options.imagesType # "array"
    \/ \E k \in 1..Len(options.images) :
           options.images[k].data \in {"undefined", "not a Uint8Array"}

\* C13: a post whose message is missing or empty, or whose images option is
\* not an array of images with a Uint8Array payload, has rejected with a
\* TypeError whenever it has started, and has issued no request.
C13_ArgumentsValidated ==
    \A i \in Adapters :
        (call[i].pc # "idle" /\ (message = <<>> \/ InvalidImages(postOptions))) =>
            /\ call[i].pc = "rejected"
            /\ call[i].reason[1] = "TypeError"
            /\ call[i].requests = <<>>

\* a post with a message and an image without data was rejected
C13_Witness ==
    \E i \in Adapters :
        /\ call[i].pc = "rejected"
        /\ message # <<>>
        /\ postOptions.images # <<>>
        /\ postOptions.images[1].data = "undefined"
        /\ call[i].reason = TypeError("Image must have data.")

Range(seq) == {seq[k] : k \in 1..Len(seq)}

\* C14: a non-success response to session creation, to a blob upload or to
\* record creation rejects the post, and the rejection is an Error whose
\* message holds the status, the status text, and the error code and the
\* message of the body of that response.
C14_HttpErrorEmbedsResponse ==
    \A i \in Adapters :
        \A k \in 1..Len(call[i].requests) :
            LET request == call[i].requests[k]
            IN  (request.outcome = "http_error" /\ request.url # "resolveHandle") =>
                    /\ k = Len(call[i].requests)
                    /\ call[i].pc = "rejected"
                    /\ call[i].reason[1] = "Error"
                    /\ {request.response.status, request.response.statusText,
                        request.response.error, request.response.message}
                           \subseteq Range(call[i].reason)
                    /\ request.response = ErrorResponseOf(request.url)

\* a post rejected by the non-success response to a blob upload
C14_Witness ==
    \E i \in Adapters :
        /\ call[i].pc = "rejected"
        /\ call[i].requests # <<>>
        /\ LastRequest(call[i]).url = "uploadBlob"
        /\ LastRequest(call[i]).outcome = "http_error"
        /\ LastRequest(call[i]).response.status \in Range(call[i].reason)

\* the requests of a post to one endpoint, in the order in which they were
\* issued
RequestsTo(c, url) ==
    LET IsTo(request) == request.url = url
    IN  SelectSeq(c.requests, IsTo)

\* C15: a post that gets past its arguments and a live signal issues one
\* createSession request, first; then one lookup for each detected mention
\* facet at most, in order; one upload for each image at most, in order; and
\* one createRecord request at most.  No request follows a failed one, except
\* the failed lookup of a mention.  A post, once called, is not called again:
\* its list of requests only grows.
C15_SingleAttempt ==
    /\ [](\A i \in Adapters :
            LET c == call[i]
            IN  /\ (c.pc # "idle" /\ c.requests = <<>>) =>
                      /\ c.pc = "rejected"
                      /\ c.reason[1] \in {"TypeError", "AbortError"}
                /\ c.requests # <<>> =>
                      /\ c.requests[1].url = "createSession"
                      /\ Len(RequestsTo(c, "createSession")) = 1
                /\ Len(RequestsTo(c, "resolveHandle")) <= Len(DetectedMentions(c))
                /\ \A k \in 1..Len(RequestsTo(c, "resolveHandle")) :
                      RequestsTo(c, "resolveHandle")[k].body
                          = DetectedMentions(c)[k].features[1].did
                /\ Len(RequestsTo(c, "uploadBlob")) <= Len(postOptions.images)
                /\ \A k \in 1..Len(RequestsTo(c, "uploadBlob")) :
                      RequestsTo(c, "uploadBlob")[k].body = postOptions.images[k].data
                /\ Len(RequestsTo(c, "createRecord")) <= 1
                /\ \A k \in 1..Len(c.requests) - 1 :
                      \/ c.requests[k].outcome = "ok"
                      \/ c.requests[k].url = "resolveHandle")
    /\ [][\A i \in Adapters :
            call[i].pc # "idle" =>
                /\ i <= Len(call')
                /\ call'[i].pc # "idle"
                /\ Len(call'[i].requests) >= Len(call[i].requests)
                /\ \A k \in 1..Len(call[i].requests) :
                      /\ call'[i].requests[k].url = call[i].requests[k].url
                      /\ call'[i].requests[k].body = call[i].requests[k].body]_vars

\* a post with a failed lookup, an upload and a createRecord request that
\* got a non-success response: it is rejected, and that was its last request
C15_Witness ==
    \E i \in Adapters :
        /\ call[i].pc = "rejected"
        /\ call[i].requests # <<>>
        /\ LastRequest(call[i]).url = "createRecord"
        /\ LastRequest(call[i]).outcome = "http_error"
        /\ Len(RequestsTo(call[i], "uploadBlob")) = 1
        /\ \E k \in 1..Len(call[i].requests) :
               /\ call[i].requests[k].url = "resolveHandle"
               /\ call[i].requests[k].outcome = "network_error"

\* C16: for every message, calculateMessageLength(message) is the
\* number of Unicode scalar values of the text that post submits in
\* record.text for that message.
C16_MeasuredIsTransmitted ==
    \A i \in Adapters :
        Submitted(call[i]) =>
            calculateMessageLength(message) = ScalarCount(Record(call[i]).text)

\* the count of a message from index i on: 27 for each URL of more than 27
\* UTF-16 code units, and one for each Unicode scalar value of the rest
RECURSIVE CountedFrom(_, _)
CountedFrom(s, i) ==
    LET j == NextUrl(s, i)
        url == SubSeq(s, j, UrlMatchEnd(s, j))
    IN  IF j > Len(s) THEN ScalarCount(SubSeq(s, i, Len(s)))
        ELSE ScalarCount(SubSeq(s, i, j - 1))
             + (IF Len(url) > URL_LENGTH_LIMIT THEN URL_LENGTH_LIMIT
                ELSE ScalarCount(url))
             + CountedFrom(s, UrlMatchEnd(s, j) + 1)

C18_SessionPerCall ==
    /\ [](\A i \in Adapters :
            \A k \in 1..Len(call[i].requests) :
                LET request == call[i].requests[k]
                    own == SessionOf(call[i].requests[1].body, i)
                IN  request.url \in {"uploadBlob", "createRecord"} =>
                        /\ call[i].requests[1].url = "createSession"
                        /\ call[i].requests[1].outcome = "ok"
                        /\ call[i].session = own
                        /\ request.auth = own.accessJwt
                        /\ request.url = "createRecord" => request.body.repo = own.did
                        /\ \A j \in Adapters \ {i} :
                              request.auth # call[j].session.accessJwt)
    /\ [][\A i, j \in Adapters :
            (i # j /\ strategies[i] = strategies[j] /\ clientPc = "posting"
                 /\ call'[j] # call[j]) => call'[i] = call[i]]_vars

\* two posts on the same strategy: the first to settle failed, the other
\* one succeeded after it with a token of its own
C18_Witness ==
    /\ Len(strategies) = 2
    /\ strategies[1] = strategies[2]
    /\ settleOrder = <<1, 2>>
    /\ call[1].pc = "rejected"
    /\ call[1].session # NoSession
    /\ call[2].pc = "fulfilled"
    /\ LastRequest(call[2]).auth # call[1].session.accessJwt

Disjoint(a, b) == a.byteEnd <= b.byteStart \/ b.byteEnd <= a.byteStart

\* C19: no mention facet of the submitted record overlaps a link facet, and
\* every handle lookup is for a detected mention that overlaps no detected
\* link: an "@handle" inside a URL token is looked up by nobody.
C19_NoMentionInsideLink ==
    \A i \in Adapters :
        /\ Submitted(call[i]) =>
              \A m, l \in 1..Len(Record(call[i]).facets) :
                  (IsMention(Record(call[i]).facets[m]) /\ IsLink(Record(call[i]).facets[l]))
                      => Disjoint(Record(call[i]).facets[m].index,
                                  Record(call[i]).facets[l].index)
        /\ \A k \in 1..Len(Lookups(call[i])) :
              /\ k <= Len(DetectedMentions(call[i]))
              /\ Lookups(call[i])[k].body = DetectedMentions(call[i])[k].features[1].did
              /\ \A l \in 1..Len(call[i].rawFacets) :
                    IsLink(call[i].rawFacets[l])
                        => Disjoint(DetectedMentions(call[i])[k].index,
                                    call[i].rawFacets[l].index)

\* a message with a mention and a URL that shows an "@" and a handle: the
\* record has the two facets and the one lookup was made
C19_Witness ==
    \E i \in Adapters :
        /\ Submitted(call[i])
        /\ Len(Lookups(call[i])) = 1
        /\ Len(Record(call[i]).facets) = 2
        /\ \E l \in 1..2 :
               /\ IsLink(Record(call[i]).facets[l])
               /\ "@" \in Range(Displayed(Record(call[i]).facets[l].features[1]))

\* C20: when the createRecord request is submitted, an upload has been made
\* for every image of the options and each has been answered with success;
\* the record embeds one image for each.
C20_UploadsBeforeRecord ==
    \A i \in Adapters :
        \A k \in 1..Len(call[i].requests) :
            call[i].requests[k].url = "createRecord" =>
                LET uploads == RequestsTo(call[i], "uploadBlob")
                    embed == call[i].requests[k].body.record.embed
                IN  /\ Len(uploads) = Len(postOptions.images)
                    /\ \A u \in 1..Len(uploads) : uploads[u].outcome = "ok"
                    /\ \A u \in 1..k - 1 : call[i].requests[u].outcome # "pending"
                    /\ postOptions.images # <<>> =>
                          Len(embed.images) = Len(postOptions.images)

\* a record with an image was submitted
C20_Witness ==
    \E i \in Adapters :
        /\ Submitted(call[i])
        /\ postOptions.images # <<>>
        /\ Len(RequestsTo(call[i], "uploadBlob")) = Len(postOptions.images)
        /\ Len(Record(call[i]).embed.images) = Len(postOptions.images)

\* the part of a uri after its last "/": the whole uri without one
AfterLastSlash(uri) ==
    LET slashes == { k \in 1..Len(uri) : uri[k] = "/" }
        last == IF slashes = {} THEN 0
                ELSE CHOOSE k \in slashes : \A j \in slashes : j <= k
    IN  SubSeq(uri, last + 1, Len(uri))

\* C21: getUrlFromResponse of a response with a uri has returned
\* https://bsky.app/profile/<configured identifier>/post/<the part of the uri
\* after its last "/">, and the call issues no request and leaves the
\* strategies as they were.
C21_UrlFromResponse ==
    /\ [](\A i \in Adapters :
            (/\ clientPc = "gotUrl"
             /\ urlCall.strategy = i
             /\ "uri" \in DOMAIN urlCall.response
             /\ urlCall.response.uri # <<>>) =>
                /\ urlCall.error = NoValue
                /\ urlCall.url = <<"https://bsky.app/profile/">>
                                     \o strategyOptions[i].identifier \o <<"/post/">>
                                     \o AfterLastSlash(urlCall.response.uri))
    /\ [][clientPc' = "gotUrl" => call' = call /\ strategies' = strategies]_vars

\* the second strategy of a broadcast returned the URL of the tests' response
C21_Witness ==
    /\ clientPc = "gotUrl"
    /\ urlCall.strategy = 2
    /\ urlCall.url = <<"https://bsky.app/profile/", "user", "2", "/post/", "123456789">>
    /\ \A i \in Adapters : call[i].requests = <<>>

\* C22: getUrlFromResponse of null, of a response without a uri and of a
\* response with an empty uri has thrown the error "Post URI not found in
\* response" and returned no URL.
C22_MissingUriThrows ==
    (/\ clientPc = "gotUrl"
     /\ \/ urlCall.response = Null
        \/ "uri" \notin DOMAIN urlCall.response
        \/ urlCall.response.uri = <<>>) =>
        /\ urlCall.error = <<"Error", "Post URI not found in response">>
        /\ urlCall.url = NoValue

\* the response had an empty uri
C22_Witness ==
    /\ clientPc = "gotUrl"
    /\ "uri" \in DOMAIN urlCall.response
    /\ urlCall.response.uri = <<>>
    /\ urlCall.error # NoValue

\* C23: a run with --version constructs no strategy, starts no post and
\* writes nothing to standard error; once it has stopped it has printed the
\* package version, and nothing else, and exits with code 0, whatever the
\* other flags and arguments are.
C23_VersionFirst ==
    flags.version =>
        /\ clientPc \in {"main", "stopped"}
        /\ strategies = <<>>
        /\ call = <<>>
        /\ stderr = <<>>
        /\ clientPc = "main" => output = <<>> /\ exitCode = -1
        /\ clientPc = "stopped" => output = <<PackageVersion>> /\ exitCode = 0

\* --version together with --mcp, --file, --help and --bluesky
C23_Witness ==
    /\ flags.version /\ flags.mcp /\ flags.file /\ flags.help
    /\ strategyOptions # <<>>
    /\ clientPc = "stopped"
    /\ output = <<PackageVersion>>
    /\ exitCode = 0

\* --mcp without the flags that end the run before the server is started
McpMode == flags.mcp /\ ~flags.version /\ ~flags.help /\ ~flags.file

\* C24: a run in MCP mode writes nothing to standard output and starts no
\* post; once the server is connected it serves the strategies of the
\* platform flags, and the start was reported on standard error, by one line.
C24_McpSilent ==
    McpMode =>
        /\ output = <<>>
        /\ clientPc \in {"main", "new", "threw", "start", "serving", "measured", "gotUrl"}
        /\ responses = <<>>
        /\ \A i \in 1..Len(call) : call[i] = NewCall
        /\ clientPc = "serving" =>
              /\ strategies = [i \in 1..Len(strategyOptions) |->
                                   BlueskyStrategy(strategyOptions[i])]
              /\ stderr = <<"MCP server started. You can now send messages to it via stdin.">>
              /\ exitCode = -1

\* the server runs over the Bluesky strategy; a message and an image were given
C24_Witness ==
    /\ McpMode
    /\ clientPc = "serving"
    /\ Len(strategies) = 1
    /\ flags.positionals = 1
    /\ flags.image = "readable"
    /\ stderr # <<>>

Failures == {"http_error", "network_error", "abort"}

\* C25: a post whose createSession request got a non-success response, or
\* was rejected, has rejected, and that request is the only one it issued.
C25_NoSessionNoRequests ==
    \A i \in Adapters :
        (/\ call[i].requests # <<>>
         /\ call[i].requests[1].outcome \in Failures) =>
            /\ call[i].requests[1].url = "createSession"
            /\ Len(call[i].requests) = 1
            /\ call[i].pc = "rejected"
            /\ call[i].reason # NoValue
            /\ call[i].session = NoSession

\* session creation was refused for a message with a mention and an image
C25_Witness ==
    \E i \in Adapters :
        /\ call[i].pc = "rejected"
        /\ Len(call[i].requests) = 1
        /\ call[i].requests[1].outcome = "http_error"
        /\ SelectSeq(detectFacets(message).facets, IsMention) # <<>>
        /\ postOptions.images # <<>>
        /\ postOptions.signal = "none"

\* C26: a post one of whose blob uploads got a non-success response, or was
\* rejected, has rejected; the failed upload is its last request, so no
\* createRecord request follows, and the uploads it made are those of the
\* images up to the failed one, the later images having none.
C26_FailedUploadStops ==
    \A i \in Adapters :
        \A k \in 1..Len(call[i].requests) :
            (/\ call[i].requests[k].url = "uploadBlob"
             /\ call[i].requests[k].outcome \in Failures) =>
                LET uploads == RequestsTo(call[i], "uploadBlob")
                IN  /\ call[i].pc = "rejected"
                    /\ k = Len(call[i].requests)
                    /\ RequestsTo(call[i], "createRecord") = <<>>
                    /\ Len(uploads) <= Len(postOptions.images)
                    /\ \A u \in 1..Len(uploads) :
                           /\ uploads[u].body = postOptions.images[u].data
                           /\ u < Len(uploads) => uploads[u].outcome = "ok"

\* the upload of the first of two images was refused
C26_Witness ==
    \E i \in Adapters :
        /\ call[i].pc = "rejected"
        /\ Len(postOptions.images) = 2
        /\ Len(RequestsTo(call[i], "uploadBlob")) = 1
        /\ LastRequest(call[i]).url = "uploadBlob"
        /\ LastRequest(call[i]).outcome = "http_error"

\* C27: once the caller's signal has fired, no step adds a createRecord
\* request to a post; and a post one of whose handle lookups was cancelled
\* has made that lookup its last request, without a createRecord request, and
\* has rejected with the abort error.
C27_NoRecordAfterAbort ==
    /\ [][aborted =>
            \A i \in Adapters :
                Len(RequestsTo(call'[i], "createRecord"))
                    = Len(RequestsTo(call[i], "createRecord"))]_vars
    /\ [](\A i \in Adapters :
            \A k \in 1..Len(call[i].requests) :
                (/\ call[i].requests[k].url = "resolveHandle"
                 /\ call[i].requests[k].outcome = "abort") =>
                    /\ k = Len(call[i].requests)
                    /\ RequestsTo(call[i], "createRecord") = <<>>
                    /\ call[i].pc = "rejected"
                    /\ call[i].reason = AbortError)

\* the signal fired during the lookup of the last mention of a post without
\* images: the request that would follow the lookup is createRecord
C27_Witness ==
    \E i \in Adapters :
        /\ aborted
        /\ call[i].pc = "rejected"
        /\ call[i].requests # <<>>
        /\ LastRequest(call[i]).url = "resolveHandle"
        /\ LastRequest(call[i]).outcome = "abort"
        /\ Len(Lookups(call[i])) = Len(DetectedMentions(call[i]))
        /\ postOptions.images = <<>>
        /\ RequestsTo(call[i], "createRecord") = <<>>

\* the message from position i on, with every URL of more than 27 code units
\* replaced by its first 24 and "...", and every other character as it is
RECURSIVE TruncatedFrom(_, _)
TruncatedFrom(s, i) ==
    LET j == NextUrl(s, i)
        end == UrlMatchEnd(s, j)
        url == SubSeq(s, j, end)
    IN  IF j > Len(s) THEN SubSeq(s, i, Len(s))
        ELSE SubSeq(s, i, j - 1)
             \o (IF Len(url) > URL_LENGTH_LIMIT
                 THEN SubSeq(url, 1, URL_LENGTH_LIMIT - Len(ELLIPSIS)) \o ELLIPSIS
                 ELSE url)
             \o TruncatedFrom(s, end + 1)

\* C28: the text of a submitted record is the message with each URL of more
\* than 27 code units replaced by its first 24 code units and "...", 27 code
\* units in all; the shorter URLs and every character outside a URL are
\* transmitted as they are, in their order.
C28_OnlyLongUrlsChange ==
    \A i \in Adapters :
        Submitted(call[i]) =>
            /\ Record(call[i]).text = TruncatedFrom(message, 1)
            /\ (\A k \in 1..Len(UrlsFrom(message, 1)) :
                    Len(UrlsFrom(message, 1)[k]) <= URL_LENGTH_LIMIT)
                   => Record(call[i]).text = message

\* a message with a URL of 28 code units and a URL of 27: the transmitted
\* text is one code unit shorter
C28_Witness ==
    \E i \in Adapters :
        /\ Submitted(call[i])
        /\ \E k \in 1..Len(UrlsFrom(message, 1)) :
               Len(UrlsFrom(message, 1)[k]) = URL_LENGTH_LIMIT + 1
        /\ \E k \in 1..Len(UrlsFrom(message, 1)) :
               Len(UrlsFrom(message, 1)[k]) = URL_LENGTH_LIMIT
        /\ Len(Record(call[i]).text) = Len(message) - 1
        /\ Record(call[i]).text # message

\* C29: a submitted record has an image embed exactly when the post was
\* given at least one image; the embed has one entry for each image, in the
\* order of the images, and the k-th entry holds the blob that the upload of
\* the k-th image returned, the image's alt text, or the empty string when it
\* has none, and the width and height that image-size reads from its data.
C29_ImageEmbed ==
    \A i \in Adapters :
        Submitted(call[i]) =>
            LET images == postOptions.images
                embed == Record(call[i]).embed
                uploads == RequestsTo(call[i], "uploadBlob")
            IN  /\ (embed = NoValue) <=> (images = <<>>)
                /\ images # <<>> =>
                      /\ Len(embed.images) = Len(images)
                      /\ Len(uploads) = Len(images)
                      /\ \A k \in 1..Len(images) :
                            /\ uploads[k].body = images[k].data
                            /\ uploads[k].outcome = "ok"
                            /\ embed.images[k].image
                                   = BlobOf(uploads[k].body, uploads[k].auth)
                            /\ embed.images[k].alt
                                   = (IF images[k].alt = "undefined" THEN ""
                                      ELSE images[k].alt)
                            /\ embed.images[k].aspectRatio = imageSize(images[k].data)

\* a record with two images of different sizes, the second without alt text
C29_Witness ==
    \E i \in Adapters :
        /\ Submitted(call[i])
        /\ Len(postOptions.images) = 2
        /\ Len(Record(call[i]).embed.images) = 2
        /\ Record(call[i]).embed.images[1].alt = "first"
        /\ postOptions.images[2].alt = "undefined"
        /\ Record(call[i]).embed.images[2].alt = ""
        /\ Record(call[i]).embed.images[1].aspectRatio
               # Record(call[i]).embed.images[2].aspectRatio
        /\ Record(call[i]).embed.images[1].image # Record(call[i]).embed.images[2].image

\* the place of a request in the order of a post
Phase(url) ==
    CASE url = "createSession" -> 1
      [] url = "resolveHandle" -> 2
      [] url = "uploadBlob" -> 3
      [] OTHER -> 4

Pending(c) == { k \in 1..Len(c.requests) : c.requests[k].outcome = "pending" }

PostSettled == IF 1 \in Adapters THEN Settled(call[1]) ELSE FALSE

\* C31: when every request that is issued is answered or fails in the end, a
\* post that is suspended on a request settles in the end; at any time it
\* has issued at most 2 + (mention facets) + (images) requests; and a post
\* that has started and has no request in flight has settled.
C31_PostSettles ==
    /\ PostPending ~> PostSettled
    /\ [](\A i \in Adapters :
            /\ Len(call[i].requests)
                   <= 2 + Len(DetectedMentions(call[i])) + Len(postOptions.images)
            /\ call[i].pc \in {"idle", "fulfilled", "rejected"} \cup RequestUrls
            /\ (call[i].pc # "idle" /\ Pending(call[i]) = {}) => Settled(call[i]))

\* a post with two mentions and two images that resolved after six requests
C31_Witness ==
    \E i \in Adapters :
        /\ call[i].pc = "fulfilled"
        /\ Len(DetectedMentions(call[i])) = 2
        /\ Len(postOptions.images) = 2
        /\ Len(call[i].requests) = 6

PostAllowed ==
    /\ ~flags.version /\ ~flags.help /\ ~flags.mcp
    /\ strategyOptions # <<>>
    /\ flags.positionals > 0 \/ flags.file
    /\ flags.image # "unreadable"

Posted == clientPc \in {"posting", "responded", "exited"}

\* C33: the CLI calls client.post at most once, and only for a command line
\* without --version, --help and --mcp, with a platform, with a message or
\* --file, and with no unreadable image; every other command line that asks
\* neither for the version nor for the MCP server sends no request and can
\* only end with exit code 1.
C33_PostOnlyWhenAsked ==
    /\ [][(~Posted /\ Posted') =>
              /\ PostAllowed
              /\ clientPc = "start" /\ clientPc' = "posting"
              /\ \A i \in Adapters : call[i] = NewCall]_vars
    /\ [][Posted => Posted' /\ (clientPc' = "posting" => clientPc = "posting")]_vars
    /\ []((~PostAllowed /\ ~flags.version /\ ~McpMode) =>
              /\ ~Posted
              /\ \A i \in Adapters : call[i] = NewCall
              /\ exitCode \in {-1, 1}
              /\ clientPc \in {"stopped", "threw"} => exitCode = 1
              /\ clientPc # "serving")

C33_Witness ==
    /\ clientPc = "stopped"
    /\ exitCode = 1
    /\ flags.image = "unreadable"
    /\ ~flags.help /\ ~flags.mcp /\ ~flags.version
    /\ strategies # <<>>

\* C34: the length calculateMessageLength returns for a message is at most
\* the number of Unicode scalar values of the message: counting a long URL
\* as 27 never makes the count larger, also when the URL holds characters
\* of two UTF-16 code units.
C34_NeverLonger ==
    clientPc = "measured" => length <= ScalarCount(message)

====
